---- MODULE Spec2Model ----
(***************************************************************************)
(* LSB steganography (src/src/main.rs, src/src/bit_iter.rs).               *)
(*                                                                         *)
(* hide_lsb writes the bits of message ++ LSB_MESSAGE_SUFFIX into the      *)
(* least significant bit of the R, G, B channels of an image, row by row;  *)
(* reveal_lsb packs those bits back into bytes until the suffix shows up.  *)
(* Spec     : one run of `hide` followed by `reveal`, or of `reveal` alone.*)
(* SpecBits : collecting v.iter_bits() for every u8 v.                     *)
(***************************************************************************)
EXTENDS Integers, Sequences, FiniteSets

VARIABLES
    debug_assertions, \* build profile: is debug_assert! compiled in
    command,          \* main's command: "hide" or "reveal"
    width, height,    \* image.width(), image.height()
    image,            \* the pixels: [<<x, y>> -> <<r, g, b>>]
    image0,           \* the image as it was opened
    message,          \* hide_lsb's message argument
    pc,               \* position of the run
    bits,             \* hide_lsb: the flattened bit iterator
    x, y,             \* loop variables of hide_lsb / reveal_lsb
    bytes, byte, bits_read, idx,   \* reveal_lsb locals
    ret,              \* reveal_lsb's return value
    it, out, ended    \* SpecBits: the IterBits, the collected Vec<bool>, next() gave None

vars == <<debug_assertions, command, width, height, image, image0, message, pc,
          bits, x, y, bytes, byte, bits_read, idx, ret, it, out, ended>>

stegoVars == <<debug_assertions, command, width, height, image, image0, message,
               pc, bits, x, y, bytes, byte, bits_read, idx, ret>>

-----------------------------------------------------------------------------
(* Bounds of the model *)

MaxPre == 1     \* longest run of bytes in front of the marker-like part of a message
MaxW == 6       \* widest image
MaxH == 6       \* tallest image

PreVals == {0, 255, 9}
PostVals == {0, 255, 9}
Widths == {0, 2, 4, MaxW}
Heights == {0, 1, MaxH}
Seeds == {5, 254}

-----------------------------------------------------------------------------
(* u8 arithmetic *)

RECURSIVE Pow2(_)
Pow2(n) == IF n = 0 THEN 1 ELSE 2 * Pow2(n - 1)

U8 == 0 .. 255

RECURSIVE BitAnd(_, _)
BitAnd(a, b) ==
    IF a = 0 \/ b = 0 THEN 0
    ELSE (IF a % 2 = 1 /\ b % 2 = 1 THEN 1 ELSE 0) + 2 * BitAnd(a \div 2, b \div 2)

RECURSIVE BitOr(_, _)
BitOr(a, b) ==
    IF a = 0 THEN b
    ELSE IF b = 0 THEN a
    ELSE (IF a % 2 = 1 \/ b % 2 = 1 THEN 1 ELSE 0) + 2 * BitOr(a \div 2, b \div 2)

\* u8 << n: the shift amount is taken modulo the width, high bits fall off
Shl(a, n) == (a * Pow2(n % 8)) % 256

\* !1 for a u8
NotOne == 254

-----------------------------------------------------------------------------
(* bit_iter.rs *)

BIT_MASK == <<1, 2, 4, 8, 16, 32, 64, 128>>

iter_bits(v) == [value |-> v, i |-> 0]

IterBitsNext_Seven(itr) ==
    IF itr.i < 7
    THEN [some |-> TRUE,
          is_set |-> BitAnd(itr.value, BIT_MASK[itr.i + 1]) # 0,
          it |-> [itr EXCEPT !.i = @ + 1]]
    ELSE [some |-> FALSE, is_set |-> FALSE, it |-> itr]

\* IterBits::next: the item (some, is_set) and the iterator afterwards
IterBitsNext(itr) ==
    IF itr.i < 8
    THEN [some |-> TRUE,
          is_set |-> BitAnd(itr.value, BIT_MASK[itr.i + 1]) # 0,
          it |-> [itr EXCEPT !.i = @ + 1]]
    ELSE [some |-> FALSE, is_set |-> FALSE, it |-> itr]

-----------------------------------------------------------------------------
(* main.rs: constants and the image *)

LSB_MESSAGE_SUFFIX == <<255, 255, 0, 0, 255, 0>>

get_pixel(img, px, py) == img[<<px, py>>]

put_pixel(img, px, py, pixel) == [img EXCEPT ![<<px, py>>] = pixel]

\* the nested `for y in 0..height { for x in 0..width {` loops have a next pixel
InLoop == y < height /\ width > 0

\* the loop variables after the body ran for (x, y)
NextX == IF x + 1 < width THEN x + 1 ELSE 0
NextY == IF x + 1 < width THEN y ELSE y + 1

-----------------------------------------------------------------------------
(* hide_lsb *)

DebugAssertHolds_Strict(msg, w, h) ==
    8 * (Len(msg) + Len(LSB_MESSAGE_SUFFIX)) < w * h * 3

\* the condition of the debug_assert!
DebugAssertHolds(msg, w, h) ==
    8 * (Len(msg) + Len(LSB_MESSAGE_SUFFIX)) <= w * h * 3

Chain_NoSuffix(msg) == msg

\* message.iter().chain(LSB_MESSAGE_SUFFIX)
Chain(msg) == msg \o LSB_MESSAGE_SUFFIX

\* the flattened iterator before its first next(): no byte taken, no inner iterator
\* (an inner iterator with i = 8 yields nothing, as an absent one)
BitsInit == [n |-> 0, front |-> [value |-> 0, i |-> 8]]

\* Flatten::next over Chain(msg).map(iter_bits)
RECURSIVE BitsNext(_, _)
BitsNext(st, msg) ==
    LET r == IterBitsNext(st.front) IN
    IF r.some
    THEN [some |-> TRUE, value |-> r.is_set, st |-> [st EXCEPT !.front = r.it]]
    ELSE IF st.n < Len(Chain(msg))
    THEN BitsNext([n |-> st.n + 1, front |-> iter_bits(Chain(msg)[st.n + 1])], msg)
    ELSE [some |-> FALSE, value |-> FALSE, st |-> st]

ClearLsb_Wrong(c) == BitAnd(c, 1)

\* pixel.0[idx] |= 1   and   pixel.0[idx] &= !1
SetLsb(c) == BitOr(c, 1)
ClearLsb(c) == BitAnd(c, NotOne)

\* `for idx in 0..3 { ... }` from channel i on: the pixel, the iterator and
\* any_was_none when the loop is left
RECURSIVE HideChannels(_, _, _, _)
HideChannels(pixel, st, msg, i) ==
    IF i = 3 THEN [pixel |-> pixel, st |-> st, any_was_none |-> FALSE]
    ELSE LET r == BitsNext(st, msg) IN
         IF r.some
         THEN HideChannels(
                [pixel EXCEPT ![i + 1] = IF r.value THEN SetLsb(@) ELSE ClearLsb(@)],
                r.st, msg, i + 1)
         ELSE [pixel |-> pixel, st |-> r.st, any_was_none |-> TRUE]

-----------------------------------------------------------------------------
(* reveal_lsb *)

Channel_BGR(pixel, i) == pixel[3 - i]

\* pixel.0[idx] as reveal_lsb reads it
Channel(pixel, i) == pixel[i + 1]

Fold_NoMask(b, c, n) == BitOr(b, Shl(c, n))

Fold_MsbFirst(b, c, n) == BitOr(b, Shl(BitAnd(c, 1), 7 - n))

\* byte |= (pixel.0[idx] & 1) << bits_read
Fold(b, c, n) == BitOr(b, Shl(BitAnd(c, 1), n))

EndsWith_Longer(s, suffix) ==
    /\ Len(s) > Len(suffix)
    /\ SubSeq(s, Len(s) - Len(suffix) + 1, Len(s)) = suffix

\* slice::ends_with
EndsWith(s, suffix) ==
    /\ Len(s) >= Len(suffix)
    /\ SubSeq(s, Len(s) - Len(suffix) + 1, Len(s)) = suffix

Truncate_KeepOne(s, n) == SubSeq(s, 1, n + 1)

\* Vec::truncate: keep the first n elements
Truncate(s, n) == IF n < Len(s) THEN SubSeq(s, 1, n) ELSE s

-----------------------------------------------------------------------------
(* The inputs *)

RECURSIVE SeqsUpTo(_, _)
SeqsUpTo(S, n) ==
    IF n = 0 THEN {<<>>}
    ELSE LET T == SeqsUpTo(S, n - 1) IN T \cup {Append(t, s) : t \in T, s \in S}

\* messages built around a prefix of the marker: none of it, part of it, all of it
Messages ==
    {pre \o SubSeq(LSB_MESSAGE_SUFFIX, 1, k) \o post :
        pre \in SeqsUpTo(PreVals, MaxPre),
        k \in 0 .. Len(LSB_MESSAGE_SUFFIX),
        post \in {<<>>} \cup {<<b>> : b \in PostVals}}

\* the value of channel k (row-major, R-G-B) of an opened image
Fill(seed, k) == (seed + 37 * k + (k \div 3)) % 256

InitImage(w, h, seed) ==
    [p \in (0 .. w - 1) \X (0 .. h - 1) |->
        LET k == 3 * (p[2] * w + p[1]) IN
        <<Fill(seed, k), Fill(seed, k + 1), Fill(seed, k + 2)>>]

-----------------------------------------------------------------------------
(* Spec: main runs `hide` (and the result is then revealed) or `reveal` *)

Init ==
    /\ debug_assertions \in BOOLEAN
    /\ command \in {"hide", "reveal"}
    /\ width \in Widths
    /\ height \in Heights
    /\ \E seed \in Seeds : image = InitImage(width, height, seed)
    /\ image0 = image
    /\ message \in (IF command = "hide" THEN Messages ELSE {<<>>})
    /\ pc = "main"
    /\ bits = BitsInit
    /\ x = 0 /\ y = 0 /\ idx = 0
    /\ bytes = <<>> /\ byte = 0 /\ bits_read = 0
    /\ ret = <<>>
    /\ it = iter_bits(0) /\ out = <<>> /\ ended = FALSE

\* hide_lsb is entered: the debug_assert!, then the iterator is built
HideCall ==
    /\ pc = "main" /\ command = "hide"
    /\ pc' = IF debug_assertions /\ ~DebugAssertHolds(message, width, height)
             THEN "panic" ELSE "hide"
    /\ bits' = BitsInit
    /\ x' = 0 /\ y' = 0
    /\ UNCHANGED <<debug_assertions, command, width, height, image, image0, message,
                   bytes, byte, bits_read, idx, ret, it, out, ended>>

\* one turn of the inner loop of hide_lsb: get_pixel, the three channels,
\* put_pixel, and the early return
HidePixel ==
    /\ pc = "hide" /\ InLoop
    /\ LET r == HideChannels(get_pixel(image, x, y), bits, message, 0) IN
        /\ image' = put_pixel(image, x, y, r.pixel)
        /\ bits' = r.st
        /\ pc' = IF r.any_was_none THEN "hidden" ELSE "hide"
        /\ x' = IF r.any_was_none THEN x ELSE NextX
        /\ y' = IF r.any_was_none THEN y ELSE NextY
    /\ UNCHANGED <<debug_assertions, command, width, height, image0, message,
                   bytes, byte, bits_read, idx, ret, it, out, ended>>

\* the loops of hide_lsb end: the function returns
HideReturn ==
    /\ pc = "hide" /\ ~InLoop
    /\ pc' = "hidden"
    /\ UNCHANGED <<debug_assertions, command, width, height, image, image0, message,
                   bits, x, y, bytes, byte, bits_read, idx, ret, it, out, ended>>

\* reveal_lsb is entered, on the opened image or on the one hide_lsb left
RevealCall ==
    /\ pc = (IF command = "hide" THEN "hidden" ELSE "main")
    /\ pc' = "reveal"
    /\ bytes' = <<>> /\ byte' = 0 /\ bits_read' = 0
    /\ x' = 0 /\ y' = 0 /\ idx' = 0
    /\ UNCHANGED <<debug_assertions, command, width, height, image, image0, message,
                   bits, ret, it, out, ended>>

\* one turn of `for idx in 0..3` of reveal_lsb
RevealChannel ==
    /\ pc = "reveal" /\ InLoop
    /\ LET pixel == get_pixel(image, x, y)
           byte1 == Fold(byte, Channel(pixel, idx), bits_read)
           read1 == bits_read + 1
           bytes1 == Append(bytes, byte1)
           found == read1 = 8 /\ EndsWith(bytes1, LSB_MESSAGE_SUFFIX)
       IN
        /\ bytes' = IF found THEN Truncate(bytes1, Len(bytes1) - Len(LSB_MESSAGE_SUFFIX))
                    ELSE IF read1 = 8 THEN bytes1 ELSE bytes
        /\ byte' = IF read1 = 8 THEN 0 ELSE byte1
        /\ bits_read' = IF read1 = 8 THEN 0 ELSE read1
        /\ ret' = IF found THEN bytes' ELSE ret
        /\ pc' = IF found THEN "revealed" ELSE "reveal"
        /\ idx' = IF found THEN idx ELSE (idx + 1) % 3
        /\ x' = IF found \/ idx < 2 THEN x ELSE NextX
        /\ y' = IF found \/ idx < 2 THEN y ELSE NextY
    /\ UNCHANGED <<debug_assertions, command, width, height, image, image0, message,
                   bits, it, out, ended>>

\* the loops of reveal_lsb end: `bytes` is returned
RevealReturn ==
    /\ pc = "reveal" /\ ~InLoop
    /\ ret' = bytes
    /\ pc' = "revealed"
    /\ UNCHANGED <<debug_assertions, command, width, height, image, image0, message,
                   bits, x, y, bytes, byte, bits_read, idx, it, out, ended>>

Next ==
    \/ HideCall
    \/ HidePixel
    \/ HideReturn
    \/ RevealCall
    \/ RevealChannel
    \/ RevealReturn

Spec == Init /\ [][Next]_vars

-----------------------------------------------------------------------------
(* SpecBits: let bits: Vec<bool> = v.iter_bits().collect(), for every u8 v *)

InitBits ==
    /\ it \in {iter_bits(v) : v \in U8}
    /\ out = <<>>
    /\ ended = FALSE
    /\ debug_assertions = FALSE
    /\ command = "reveal"
    /\ width = 0 /\ height = 0
    /\ image = InitImage(0, 0, 0)
    /\ image0 = image
    /\ message = <<>>
    /\ pc = "bits"
    /\ bits = BitsInit
    /\ x = 0 /\ y = 0 /\ idx = 0
    /\ bytes = <<>> /\ byte = 0 /\ bits_read = 0
    /\ ret = <<>>

\* next() returns Some(is_set): collect pushes it
CollectSome ==
    /\ pc = "bits" /\ ~ended
    /\ IterBitsNext(it).some
    /\ out' = Append(out, IterBitsNext(it).is_set)
    /\ it' = IterBitsNext(it).it
    /\ UNCHANGED ended
    /\ UNCHANGED stegoVars

\* next() returns None: collect is done
CollectNone ==
    /\ pc = "bits" /\ ~ended
    /\ ~IterBitsNext(it).some
    /\ ended' = TRUE
    /\ it' = IterBitsNext(it).it
    /\ UNCHANGED out
    /\ UNCHANGED stegoVars

NextBits ==
    \/ CollectSome
    \/ CollectNone

SpecBits == InitBits /\ [][NextBits]_vars

-----------------------------------------------------------------------------
(* Vocabulary of the properties *)

\* the capacity of the image in bits, and the length of the bit stream of `message`
Capacity == 3 * width * height
StreamLen == 8 * (Len(message) + Len(LSB_MESSAGE_SUFFIX))
Fits == StreamLen <= Capacity

Min(a, b) == IF a < b THEN a ELSE b

\* channel k of an image in row-major, R-G-B order (k from 0)
ChannelAt(img, k) == img[<<(k \div 3) % width, (k \div 3) \div width>>][(k % 3) + 1]

Lsb(c) == c % 2

\* bit position n (value 2^n) of v is set
BitSet(v, n) == (v \div Pow2(n)) % 2 = 1

\* everything v.iter_bits() yields
RECURSIVE CollectBits(_)
CollectBits(itr) ==
    LET r == IterBitsNext(itr) IN
    IF r.some THEN <<r.is_set>> \o CollectBits(r.it) ELSE <<>>

\* bit k (from 0) of the stream S: the iter_bits output of each byte of the
\* message, then of each byte of the marker
StreamBit(k) ==
    CollectBits(iter_bits((message \o LSB_MESSAGE_SUFFIX)[(k \div 8) + 1]))[(k % 8) + 1]

\* how many bits hide_lsb has pulled out of its iterator
Consumed == 8 * bits.n - 8 + bits.front.i

\* the byte packed from channels 8j .. 8j+7 of the image, and the byte stream B
PackedByte(img, j) ==
    LET RECURSIVE Sum(_)
        Sum(i) == IF i = 8 THEN 0
                  ELSE Lsb(ChannelAt(img, 8 * j + i)) * Pow2(i) + Sum(i + 1)
    IN Sum(0)

Packed(img) == [j \in 1 .. (Capacity \div 8) |-> PackedByte(img, j - 1)]

\* the marker occurs in s at offset p (from 0); somewhere; first at
MarkerAt(s, p) ==
    /\ p + Len(LSB_MESSAGE_SUFFIX) <= Len(s)
    /\ SubSeq(s, p + 1, p + Len(LSB_MESSAGE_SUFFIX)) = LSB_MESSAGE_SUFFIX

HasMarker(s) == \E p \in 0 .. Len(s) : MarkerAt(s, p)

FirstMarker(s) ==
    CHOOSE p \in 0 .. Len(s) : MarkerAt(s, p) /\ \A q \in 0 .. p - 1 : ~MarkerAt(s, q)

\* channels reveal_lsb has read so far
ChannelsRead == 3 * (y * width + x) + idx

-----------------------------------------------------------------------------
(* Properties *)

\* C1 as stated: whenever the stream fits, reveal_lsb after hide_lsb returns the
\* message, whatever its bytes are.
C1_RoundTripAnyContent ==
    (pc = "revealed" /\ command = "hide" /\ Fits) => ret = message

\* C1 (amended): whenever the stream fits and the message does not contain the
\* 6-byte marker, reveal_lsb after hide_lsb returns exactly the message; the
\* empty message gives the empty byte sequence.
C1_RoundTrip ==
    (pc = "revealed" /\ command = "hide" /\ Fits /\ ~HasMarker(message))
        => ret = message

C1_Witness ==
    /\ pc = "revealed" /\ command = "hide" /\ Fits /\ ~HasMarker(message)
    /\ Len(message) >= 2
    /\ \E i \in 1 .. Len(message) : message[i] = 9
    /\ ret = message

C3_HighToLow ==
    ended => (Len(out) = 8 /\ \A k \in 0 .. 7 : out[k + 1] = BitSet(it.value, 7 - k))

\* C4: after hide_lsb, for every k below min(len(S), 3*w*h), the least
\* significant bit of channel k mod 3 of pixel ((k div 3) mod w, (k div 3) div w)
\* is S[k], S being the iter_bits output of the message bytes followed by that
\* of the six marker bytes.
C4_EmbeddingLayout ==
    pc = "hidden" =>
        \A k \in 0 .. Min(StreamLen, Capacity) - 1 :
            Lsb(image[<<(k \div 3) % width, (k \div 3) \div width>>][(k % 3) + 1])
                = (IF StreamBit(k) THEN 1 ELSE 0)

C4_Witness ==
    /\ pc = "hidden" /\ Fits /\ Len(message) > 0
    /\ width > 1 /\ height > 1
    /\ image # image0

\* C5: hide_lsb changes nothing but the least significant bit of the first
\* min(N, 3*w*h) channels, N = 8 * (len(m) + 6): the upper seven bits of every
\* channel stay, every channel at stream index N or more keeps its value, and
\* the dimensions stay.
C5_Frame ==
    /\ DOMAIN image = DOMAIN image0
    /\ \A k \in 0 .. Capacity - 1 :
          /\ ChannelAt(image, k) \div 2 = ChannelAt(image0, k) \div 2
          /\ k >= StreamLen => ChannelAt(image, k) = ChannelAt(image0, k)

\* the stream ended on a pixel boundary, and a pixel after it was read and
\* written back
C5_Witness ==
    /\ pc = "hidden" /\ StreamLen < Capacity /\ StreamLen % 3 = 0
    /\ Consumed = StreamLen
    /\ 3 * (y * width + x) = StreamLen
    /\ image # image0

C7_FirstMarker ==
    pc = "revealed" =>
        LET B == Packed(image) IN
        /\ HasMarker(B) => ret = SubSeq(B, 1, FirstMarker(B))
        /\ (command = "hide" /\ Fits /\ HasMarker(message))
              => ret = SubSeq(message, 1, FirstMarker(message))

C7_Witness ==
    /\ pc = "revealed" /\ command = "hide" /\ Fits
    /\ HasMarker(message) /\ FirstMarker(message) > 0
    /\ ret # message
    /\ Len(ret) = FirstMarker(message)

\* C8: when the marker occurs nowhere in B, reveal_lsb returns floor(3*w*h / 8)
\* bytes, the j-th packed from channels 8j .. 8j+7; the 3*w*h mod 8 bits left
\* over are not in the output.
C8_NoMarker ==
    (pc = "revealed" /\ ~HasMarker(Packed(image))) =>
        /\ Len(ret) = Capacity \div 8
        /\ \A j \in 0 .. Len(ret) - 1 : ret[j + 1] = PackedByte(image, j)

C8_Witness ==
    /\ pc = "revealed" /\ ~HasMarker(Packed(image))
    /\ Capacity % 8 # 0
    /\ Len(ret) >= 2

\* C9: while reveal_lsb scans, bits_read is in 0..7 and counts the channels read
\* modulo 8, the accumulator is below 2^bits_read, and the output holds one byte
\* for every completed group of 8 channels read.
C9_Accumulator ==
    pc = "reveal" =>
        /\ bits_read \in 0 .. 7
        /\ bits_read = ChannelsRead % 8
        /\ byte \in 0 .. Pow2(bits_read) - 1
        /\ Len(bytes) = ChannelsRead \div 8

C9_Witness ==
    /\ pc = "reveal" /\ bits_read = 7 /\ byte >= 64
    /\ Len(bytes) >= 1

\* C10: the output buffer of reveal_lsb, and what it returns, never contain the
\* marker as a contiguous subsequence.
C10_NoMarkerInOutput == ~HasMarker(bytes) /\ ~HasMarker(ret)

\* the message carried a marker of its own with a byte behind it: the scan
\* stopped at the first marker
C10_Witness ==
    /\ pc = "revealed" /\ command = "hide"
    /\ HasMarker(message) /\ HasMarker(Packed(image))
    /\ Len(ret) >= 1
    /\ Len(message) > Len(ret) + Len(LSB_MESSAGE_SUFFIX)

====
